---- MODULE Spec2Model ----
(***************************************************************************)
(* Model of commitizen/cz/conventional_commits/conventional_commits.py:    *)
(* the scope and subject filters, the message composer, the schema and     *)
(* commit_parser patterns, the question list and the bump classification.  *)
(*                                                                         *)
(* A Python str is a sequence of characters, each written as a string;     *)
(* None is the value None below.  A call that may raise returns a record   *)
(* [raised |-> BOOLEAN, value |-> ...].                                    *)
(***************************************************************************)
EXTENDS Naturals, Sequences, FiniteSets

VARIABLES
    text,       \* argument of the string function under examination
    op,         \* the function applied to text ("none" before the call)
    out,        \* what that call returned
    answers,    \* the Answers record handed to message()
    stage,      \* composer round trip: "start", "rendered", "extracted"
    rendered,   \* outcome of message(answers)
    extracted,  \* process_commit(rendered.value)
    language,   \* language selector given to questions()
    qs,         \* the list questions(language) returned (<<>> before the call)
    flow,       \* question flow: "idle", "asking", "end", "aborted", "emitted"
    step,       \* index in qs of the prompt being shown (0 when none)
    entered,    \* names of the prompts shown so far, in order
    raw,        \* raw answer typed at every answered prompt
    stored,     \* filtered answer stored for every answered prompt
    emitted,    \* the commit message emitted by the flow (None when none)
    commit,     \* classifier input [change_type, breaking, major_zero]
    severity    \* classifier output ("unset" before the call)

vars == <<text, op, out, answers, stage, rendered, extracted, language, qs,
          flow, step, entered, raw, stored, emitted, commit, severity>>

textVars == <<text, op, out>>
composeVars == <<answers, stage, rendered, extracted>>
flowVars == <<language, qs, flow, step, entered, raw, stored, emitted>>
bumpVars == <<commit, severity>>

(***************************************************************************)
(* Bounds of the model.                                                    *)
(***************************************************************************)
MaxText == 4

(***************************************************************************)
(* Python values and str helpers.                                          *)
(*                                                                         *)
(* A character of a str up to U+00FF is written as the one-character       *)
(* string itself when it is printable or whitespace, the backquote         *)
(* excepted, which a TLA+ string cannot hold; every other character is     *)
(* written by its code point, as in "U+2028" and "U+1F600".                *)
(***************************************************************************)
None == <<"None">>

\* The characters str.strip(), str.split() and \s of a str pattern take as
\* whitespace: U+0009..U+000D, U+001C..U+001F, U+0020, then U+0085, U+00A0,
\* U+1680, U+2000..U+200A, U+2028, U+2029, U+202F, U+205F and U+3000.
Whitespace ==
    {" ", "\t", "\n", "", "\f", "\r", "", "", "", "", "", " ",
     "U+1680", "U+2000", "U+2001", "U+2002", "U+2003", "U+2004", "U+2005",
     "U+2006", "U+2007", "U+2008", "U+2009", "U+200A", "U+2028", "U+2029",
     "U+202F", "U+205F", "U+3000"}

Period == {"."}

Str(alphabet, n) == UNION {[1..k -> alphabet] : k \in 0..n}

RECURSIVE lstrip(_, _)
lstrip(s, chars) ==
    IF s # <<>> /\ Head(s) \in chars THEN lstrip(Tail(s), chars) ELSE s

RECURSIVE rstrip(_, _)
rstrip(s, chars) ==
    IF s # <<>> /\ s[Len(s)] \in chars
    THEN rstrip(SubSeq(s, 1, Len(s) - 1), chars)
    ELSE s

strip(s, chars) == rstrip(lstrip(s, chars), chars)

\* str.split() with no separator: the maximal runs of non-whitespace.
RECURSIVE split(_)
split(s) ==
    LET t == lstrip(s, Whitespace)
        n == IF \E i \in 1..Len(t) : t[i] \in Whitespace
             THEN (CHOOSE i \in 1..Len(t) :
                      /\ t[i] \in Whitespace
                      /\ \A j \in 1..(i - 1) : t[j] \notin Whitespace) - 1
             ELSE Len(t)
    IN  IF t = <<>> THEN <<>>
        ELSE <<SubSeq(t, 1, n)>> \o split(SubSeq(t, n + 1, Len(t)))

RECURSIVE join(_, _)
join(sep, parts) ==
    IF parts = <<>> THEN <<>>
    ELSE IF Len(parts) = 1 THEN parts[1]
    ELSE parts[1] \o sep \o join(sep, Tail(parts))

Returned(v) == [raised |-> FALSE, value |-> v]

Raised(e) == [raised |-> TRUE, value |-> e]

(***************************************************************************)
(* parse_scope and parse_subject.                                          *)
(***************************************************************************)
parse_scope_nosep(t) ==
    IF t = None \/ t = <<>> THEN <<>>
    ELSE join(<<>>, split(strip(t, Whitespace)))

parse_scope(t) ==
    IF t = None \/ t = <<>> THEN <<>>
    ELSE LET scope == split(strip(t, Whitespace))
         IN  IF Len(scope) = 1 THEN scope[1] ELSE join(<<"-">>, scope)

SubjectRequired == "Subject is required."

\* commitizen.cz.utils.required_validator: a falsy answer raises with msg.
required_validator(answer, msg) ==
    IF answer = None \/ answer = <<>> THEN Raised(msg) ELSE Returned(answer)

parse_subject(t) ==
    LET s == IF t # None THEN strip(strip(t, Period), Whitespace) ELSE t
    IN  required_validator(s, SubjectRequired)

(***************************************************************************)
(* Idle values of the variables a specification does not use.              *)
(***************************************************************************)
TextIdle == text = None /\ op = "none" /\ out = None

ComposeIdle ==
    answers = <<>> /\ stage = "start" /\ rendered = None /\ extracted = None

FlowIdle ==
    /\ language = "en" /\ qs = <<>> /\ flow = "idle" /\ step = 0
    /\ entered = <<>> /\ raw = <<>> /\ stored = <<>> /\ emitted = None

BumpIdle == commit = <<>> /\ severity = "unset"

(***************************************************************************)
(* SpecNorm: the two filters applied to every short input.                 *)
(***************************************************************************)
\* "" is U+000B, the vertical tab.
NormAlphabet == {"a", "-", " ", ".", "\n", "", "U+2028"}

NormInputs == Str(NormAlphabet, MaxText) \cup {None}

InitNorm ==
    /\ text \in NormInputs /\ op = "none" /\ out = None
    /\ ComposeIdle /\ FlowIdle /\ BumpIdle

CallParseScope ==
    /\ op = "none"
    /\ op' = "parse_scope"
    /\ out' = Returned(parse_scope(text))
    /\ UNCHANGED <<text, composeVars, flowVars, bumpVars>>

CallParseSubject ==
    /\ op = "none"
    /\ op' = "parse_subject"
    /\ out' = parse_subject(text)
    /\ UNCHANGED <<text, composeVars, flowVars, bumpVars>>

NextNorm == CallParseScope \/ CallParseSubject

SpecNorm == InitNorm /\ [][NextNorm]_vars

(***************************************************************************)
(* Claims about the filters (SpecNorm).                                    *)
(***************************************************************************)
\* One left-to-right pass: whitespace is dropped, and a hyphen is written
\* before a character that follows a gap once something was written.
RECURSIVE HyphenScan(_, _, _)
HyphenScan(s, acc, gap) ==
    IF s = <<>> THEN acc
    ELSE IF Head(s) \in Whitespace THEN HyphenScan(Tail(s), acc, TRUE)
    ELSE HyphenScan(Tail(s),
                    IF gap /\ acc # <<>> THEN acc \o <<"-", Head(s)>>
                    ELSE Append(acc, Head(s)),
                    FALSE)

AsStr(t) == IF t = None THEN <<>> ELSE t

HasWhitespace(s) == \E i \in 1..Len(s) : s[i] \in Whitespace

\* C6: parse_scope is total and returns the whitespace-separated tokens of
\* its input joined by single hyphens: the empty string when there is no
\* token (empty, absent or whitespace-only input), the token itself when
\* there is exactly one, never a string containing whitespace, and applying
\* it to its own output changes nothing.
C6_ScopeHyphenJoined ==
    op = "parse_scope" =>
        LET s == AsStr(text)
            core == strip(s, Whitespace)
        IN  /\ ~out.raised
            /\ out.value = HyphenScan(s, <<>>, FALSE)
            /\ ~HasWhitespace(out.value)
            /\ (core = <<>> => out.value = <<>>)
            /\ (core # <<>> /\ ~HasWhitespace(core) => out.value = core)
            /\ parse_scope(out.value) = out.value

C6_Witness ==
    /\ op = "parse_scope"
    /\ text = <<" ", "a", "\n", "a">>
    /\ out.value = <<"a", "-", "a">>

\* C5 as claimed: trailing periods removed, then surrounding whitespace.
ClaimedSubject(t) ==
    LET s == IF t # None THEN strip(rstrip(t, Period), Whitespace) ELSE t
    IN  IF s = None \/ s = <<>> THEN Raised(SubjectRequired) ELSE Returned(s)

\* C5: parse_subject(text) returns text with its trailing periods removed
\* and then its surrounding whitespace removed, nothing else changed, and
\* fails with the 'Subject is required' error exactly when that result is
\* empty or the input is absent.
C5_SubjectTrailingPeriodsOnly ==
    op = "parse_subject" => out = ClaimedSubject(text)

(***************************************************************************)
(* Regular-expression helpers: character classes and greedy runs.          *)
(***************************************************************************)
Min(S) == CHOOSE x \in S : \A y \in S : x <= y

Max(S) == CHOOSE x \in S : \A y \in S : x >= y

\* The character at position i, or "" past either end.
At(m, i) == IF i \in 1..Len(m) THEN m[i] ELSE ""

StartsWithAt(m, i, w) ==
    /\ i >= 1
    /\ i + Len(w) - 1 <= Len(m)
    /\ SubSeq(m, i, i + Len(w) - 1) = w

\* A character class: the characters listed, or (neg) all the others.
Class(chars) == [neg |-> FALSE, chars |-> chars]

NotClass(chars) == [neg |-> TRUE, chars |-> chars]

Matches(c, cls) == (c \in cls.chars) # cls.neg

\* Length of the longest run of characters of class cls that starts at i.
RunLen(m, i, cls) ==
    LET stops == {j \in i..Len(m) : ~Matches(m[j], cls)}
    IN  IF i > Len(m) THEN 0
        ELSE IF stops = {} THEN Len(m) + 1 - i
        ELSE Min(stops) - i

IsSpace == Class(Whitespace)

NotNewline == NotClass({"\n", "\r"})

NoMatch == <<>>

(***************************************************************************)
(* schema_pattern and process_commit.  The operators try the alternatives  *)
(* in the order the backtracking matcher does and keep the first success;  *)
(* a success is <<start, end>>, the span of group 3.                       *)
(***************************************************************************)
SchemaTypes ==
    << <<"b", "u", "i", "l", "d">>,
       <<"c", "i">>,
       <<"d", "o", "c", "s">>,
       <<"f", "e", "a", "t">>,
       <<"f", "i", "x">>,
       <<"p", "e", "r", "f">>,
       <<"r", "e", "f", "a", "c", "t", "o", "r">>,
       <<"s", "t", "y", "l", "e">>,
       <<"t", "e", "s", "t">>,
       <<"c", "h", "o", "r", "e">>,
       <<"r", "e", "v", "e", "r", "t">>,
       <<"b", "u", "m", "p">> >>

\* `$`: the end of the string, or just before a final line feed.
AtEnd(m, p) == p = Len(m) + 1 \/ (p = Len(m) /\ m[p] = "\n")

\* ((\n\n.*)|(\s*))?$  with . matching every character.
SchemaRest(m, p) ==
    \/ StartsWithAt(m, p, <<"\n", "\n">>)
    \/ \E q \in 0..RunLen(m, p, IsSpace) : AtEnd(m, p + q)
    \/ AtEnd(m, p)

\* ( [^\n\r]+) followed by the rest: the longest subject that lets the rest
\* match.
SchemaSubject(m, p) ==
    LET n  == RunLen(m, p + 1, NotNewline)
        ks == {k \in 1..n : SchemaRest(m, p + 1 + k)}
    IN  IF At(m, p) # " " \/ ks = {} THEN NoMatch
        ELSE <<p, p + Max(ks)>>

\* !?:
SchemaColon(m, p) ==
    LET with == IF At(m, p) = "!" /\ At(m, p + 1) = ":"
                THEN SchemaSubject(m, p + 2) ELSE NoMatch
    IN  IF with # NoMatch THEN with
        ELSE IF At(m, p) = ":" THEN SchemaSubject(m, p + 1)
        ELSE NoMatch

SchemaScopeChar_any == NotClass({"\n", "\r"})

\* \S
SchemaScopeChar == NotClass(Whitespace)

\* (\(\S+\))?  greedy: the longest scope first, no scope last.
SchemaScope(m, p) ==
    LET n  == RunLen(m, p + 1, SchemaScopeChar)
        js == {j \in 1..n : /\ At(m, p + 1 + j) = ")"
                            /\ SchemaColon(m, p + j + 2) # NoMatch}
    IN  IF At(m, p) = "(" /\ js # {} THEN SchemaColon(m, p + Max(js) + 2)
        ELSE SchemaColon(m, p)

schema_match(m) ==
    LET ok == {k \in 1..Len(SchemaTypes) :
                  /\ StartsWithAt(m, 1, SchemaTypes[k])
                  /\ SchemaScope(m, Len(SchemaTypes[k]) + 1) # NoMatch}
    IN  IF ok = {} THEN NoMatch
        ELSE SchemaScope(m, Len(SchemaTypes[Min(ok)]) + 1)

process_commit(c) ==
    LET g == schema_match(c)
    IN  IF g = NoMatch THEN <<>>
        ELSE strip(SubSeq(c, g[1], g[2]), Whitespace)

(***************************************************************************)
(* SpecSchema: process_commit applied to well-formed and malformed         *)
(* messages: a head, a scope part, the punctuation, then every short text  *)
(* over letters, blanks and line breaks.                                   *)
(***************************************************************************)
MaxBody == 4

BreakingChange ==
    <<"B", "R", "E", "A", "K", "I", "N", "G", " ", "C", "H", "A", "N", "G", "E">>

SchemaHeads ==
    { <<"f", "i", "x">>, <<"b", "u", "m", "p">>, <<"F", "i", "x">>,
      <<"f", "o", "o">>, BreakingChange }

SchemaScopes ==
    { <<>>, <<"(", "a", ")">>, <<"(", "a", " ", "b", ")">>, <<"(", ")">>,
      <<"(", "a", ")", ":", "b", ")">>, <<"(", "a", "", "b", ")">> }

SchemaPuncts ==
    { <<":", " ">>, <<"!", ":", " ">>, <<":">>, <<":", "\t">>, <<" ", ":", " ">> }

SchemaAlphabet == {"a", " ", "\n", "\r", ""}

InitSchema ==
    /\ \E h \in SchemaHeads, sc \in SchemaScopes, pu \in SchemaPuncts,
          b \in Str(SchemaAlphabet, MaxBody) : text = h \o sc \o pu \o b
    /\ op = "none" /\ out = None
    /\ ComposeIdle /\ FlowIdle /\ BumpIdle

CallProcessCommit ==
    /\ op = "none"
    /\ op' = "process_commit"
    /\ out' = Returned(process_commit(text))
    /\ UNCHANGED <<text, composeVars, flowVars, bumpVars>>

NextSchema == CallProcessCommit

SpecSchema == InitSchema /\ [][NextSchema]_vars

(***************************************************************************)
(* Claims about process_commit (SpecSchema).  The grammar is stated as the *)
(* set of ways to cut the message into type, scope, marker, colon, space,  *)
(* subject and rest; Subjects is the set of subjects of those cuts.        *)
(***************************************************************************)
Range(f) == {f[i] : i \in DOMAIN f}

GrammarAfterScope(m, p, scopeClass) ==
    {p} \cup {e + 1 : e \in {e \in (p + 2)..Len(m) :
                                /\ At(m, p) = "("
                                /\ m[e] = ")"
                                /\ \A i \in (p + 1)..(e - 1) : Matches(m[i], scopeClass)}}

GrammarColon(m, q) ==
    {r \in {q, q + 1} : At(m, r) = ":" /\ (r = q \/ At(m, q) = "!")}

GrammarRest(m, v) ==
    \/ \A i \in v..Len(m) : m[i] \in Whitespace
    \/ StartsWithAt(m, v, <<"\n", "\n">>)

GrammarSubjects(m, r) ==
    {SubSeq(m, r + 2, u) : u \in {u \in (r + 2)..Len(m) :
                                     /\ At(m, r + 1) = " "
                                     /\ \A i \in (r + 2)..u : Matches(m[i], NotNewline)
                                     /\ GrammarRest(m, u + 1)}}

Subjects(m, types, scopeClass) ==
    UNION {GrammarSubjects(m, r) :
             r \in UNION {GrammarColon(m, q) :
                     q \in UNION {GrammarAfterScope(m, Len(t) + 1, scopeClass) :
                             t \in {t \in types : StartsWithAt(m, 1, t)}}}}

CommitTypeTokens == Range(SchemaTypes) \cup {BreakingChange}

GrammarNonSpace == NotClass(Whitespace)

\* C2 (as amended): process_commit(m) never raises; when m consists of a
\* type among build, ci, docs, feat, fix, perf, refactor, style, test,
\* chore, revert and bump (not BREAKING CHANGE), an optional scope '(' +
\* a non-empty run of non-whitespace characters + ')', an optional '!',
\* ':', a space, a subject of at least one character other than LF and CR,
\* and then only whitespace or two line feeds followed by anything, it
\* returns that subject with its surrounding whitespace removed (the empty
\* string for a subject of blanks); for every other string it returns the
\* empty string.
C2_ProcessCommitGrammar ==
    op = "process_commit" =>
        LET S == Subjects(text, Range(SchemaTypes), GrammarNonSpace)
        IN  /\ ~out.raised
            /\ S = {} => out.value = <<>>
            /\ \A subject \in S : out.value = strip(subject, Whitespace)

C2_Witness ==
    /\ op = "process_commit"
    /\ text = <<"f", "i", "x", "(", "a", ")", "!", ":", " ",
                "a", "\n", "\n", "a">>
    /\ out.value = <<"a">>

\* C2 (as claimed): process_commit(m) returns a non-empty string exactly
\* when m is a CommitTypeToken (BREAKING CHANGE included), an optional
\* scope '(' + non-empty run of non-newline characters + ')', an optional
\* '!', ':', a space, a subject and the rest; the value is then the trimmed
\* subject.
C2_OriginalGrammar ==
    op = "process_commit" =>
        LET S == Subjects(text, CommitTypeTokens, NotNewline)
        IN  /\ ~out.raised
            /\ out.value # <<>> <=> S # {}
            /\ \A subject \in S : out.value = strip(subject, Whitespace)

(***************************************************************************)
(* commit_parser.  A match is [matched |-> TRUE, change_type, scope,       *)
(* breaking, message], a group that took no part being None.               *)
(***************************************************************************)
ParserTypes ==
    << <<"f", "e", "a", "t">>,
       <<"f", "i", "x">>,
       <<"r", "e", "f", "a", "c", "t", "o", "r">>,
       <<"p", "e", "r", "f">>,
       BreakingChange >>

\* \w of a str pattern matches the alphanumeric characters of every script
\* and "_".  Latin1Word lists those up to U+00FF; WordRanges lists, in
\* increasing order, the intervals of code points that make up the others.
Latin1Word ==
    {"0", "1", "2", "3", "4", "5", "6", "7", "8", "9", "A", "B", "C", "D",
     "E", "F", "G", "H", "I", "J", "K", "L", "M", "N", "O", "P", "Q", "R",
     "S", "T", "U", "V", "W", "X", "Y", "Z", "_", "a", "b", "c", "d", "e",
     "f", "g", "h", "i", "j", "k", "l", "m", "n", "o", "p", "q", "r", "s",
     "t", "u", "v", "w", "x", "y", "z", "ª", "²", "³", "µ", "¹", "º", "¼",
     "½", "¾", "À", "Á", "Â", "Ã", "Ä", "Å", "Æ", "Ç", "È", "É", "Ê", "Ë",
     "Ì", "Í", "Î", "Ï", "Ð", "Ñ", "Ò", "Ó", "Ô", "Õ", "Ö", "Ø", "Ù", "Ú",
     "Û", "Ü", "Ý", "Þ", "ß", "à", "á", "â", "ã", "ä", "å", "æ", "ç", "è",
     "é", "ê", "ë", "ì", "í", "î", "ï", "ð", "ñ", "ò", "ó", "ô", "õ", "ö",
     "ø", "ù", "ú", "û", "ü", "ý", "þ", "ÿ"}

WordRanges ==
    <<<<256, 705>>, <<710, 721>>, <<736, 740>>, <<748, 748>>, <<750, 750>>,
      <<880, 884>>, <<886, 887>>, <<890, 893>>, <<895, 895>>, <<902, 902>>,
      <<904, 906>>, <<908, 908>>, <<910, 929>>, <<931, 1013>>,
      <<1015, 1153>>, <<1162, 1327>>, <<1329, 1366>>, <<1369, 1369>>,
      <<1376, 1416>>, <<1488, 1514>>, <<1519, 1522>>, <<1568, 1610>>,
      <<1632, 1641>>, <<1646, 1647>>, <<1649, 1747>>, <<1749, 1749>>,
      <<1765, 1766>>, <<1774, 1788>>, <<1791, 1791>>, <<1808, 1808>>,
      <<1810, 1839>>, <<1869, 1957>>, <<1969, 1969>>, <<1984, 2026>>,
      <<2036, 2037>>, <<2042, 2042>>, <<2048, 2069>>, <<2074, 2074>>,
      <<2084, 2084>>, <<2088, 2088>>, <<2112, 2136>>, <<2144, 2154>>,
      <<2160, 2183>>, <<2185, 2190>>, <<2208, 2249>>, <<2308, 2361>>,
      <<2365, 2365>>, <<2384, 2384>>, <<2392, 2401>>, <<2406, 2415>>,
      <<2417, 2432>>, <<2437, 2444>>, <<2447, 2448>>, <<2451, 2472>>,
      <<2474, 2480>>, <<2482, 2482>>, <<2486, 2489>>, <<2493, 2493>>,
      <<2510, 2510>>, <<2524, 2525>>, <<2527, 2529>>, <<2534, 2545>>,
      <<2548, 2553>>, <<2556, 2556>>, <<2565, 2570>>, <<2575, 2576>>,
      <<2579, 2600>>, <<2602, 2608>>, <<2610, 2611>>, <<2613, 2614>>,
      <<2616, 2617>>, <<2649, 2652>>, <<2654, 2654>>, <<2662, 2671>>,
      <<2674, 2676>>, <<2693, 2701>>, <<2703, 2705>>, <<2707, 2728>>,
      <<2730, 2736>>, <<2738, 2739>>, <<2741, 2745>>, <<2749, 2749>>,
      <<2768, 2768>>, <<2784, 2785>>, <<2790, 2799>>, <<2809, 2809>>,
      <<2821, 2828>>, <<2831, 2832>>, <<2835, 2856>>, <<2858, 2864>>,
      <<2866, 2867>>, <<2869, 2873>>, <<2877, 2877>>, <<2908, 2909>>,
      <<2911, 2913>>, <<2918, 2927>>, <<2929, 2935>>, <<2947, 2947>>,
      <<2949, 2954>>, <<2958, 2960>>, <<2962, 2965>>, <<2969, 2970>>,
      <<2972, 2972>>, <<2974, 2975>>, <<2979, 2980>>, <<2984, 2986>>,
      <<2990, 3001>>, <<3024, 3024>>, <<3046, 3058>>, <<3077, 3084>>,
      <<3086, 3088>>, <<3090, 3112>>, <<3114, 3129>>, <<3133, 3133>>,
      <<3160, 3162>>, <<3165, 3165>>, <<3168, 3169>>, <<3174, 3183>>,
      <<3192, 3198>>, <<3200, 3200>>, <<3205, 3212>>, <<3214, 3216>>,
      <<3218, 3240>>, <<3242, 3251>>, <<3253, 3257>>, <<3261, 3261>>,
      <<3293, 3294>>, <<3296, 3297>>, <<3302, 3311>>, <<3313, 3314>>,
      <<3332, 3340>>, <<3342, 3344>>, <<3346, 3386>>, <<3389, 3389>>,
      <<3406, 3406>>, <<3412, 3414>>, <<3416, 3425>>, <<3430, 3448>>,
      <<3450, 3455>>, <<3461, 3478>>, <<3482, 3505>>, <<3507, 3515>>,
      <<3517, 3517>>, <<3520, 3526>>, <<3558, 3567>>, <<3585, 3632>>,
      <<3634, 3635>>, <<3648, 3654>>, <<3664, 3673>>, <<3713, 3714>>,
      <<3716, 3716>>, <<3718, 3722>>, <<3724, 3747>>, <<3749, 3749>>,
      <<3751, 3760>>, <<3762, 3763>>, <<3773, 3773>>, <<3776, 3780>>,
      <<3782, 3782>>, <<3792, 3801>>, <<3804, 3807>>, <<3840, 3840>>,
      <<3872, 3891>>, <<3904, 3911>>, <<3913, 3948>>, <<3976, 3980>>,
      <<4096, 4138>>, <<4159, 4169>>, <<4176, 4181>>, <<4186, 4189>>,
      <<4193, 4193>>, <<4197, 4198>>, <<4206, 4208>>, <<4213, 4225>>,
      <<4238, 4238>>, <<4240, 4249>>, <<4256, 4293>>, <<4295, 4295>>,
      <<4301, 4301>>, <<4304, 4346>>, <<4348, 4680>>, <<4682, 4685>>,
      <<4688, 4694>>, <<4696, 4696>>, <<4698, 4701>>, <<4704, 4744>>,
      <<4746, 4749>>, <<4752, 4784>>, <<4786, 4789>>, <<4792, 4798>>,
      <<4800, 4800>>, <<4802, 4805>>, <<4808, 4822>>, <<4824, 4880>>,
      <<4882, 4885>>, <<4888, 4954>>, <<4969, 4988>>, <<4992, 5007>>,
      <<5024, 5109>>, <<5112, 5117>>, <<5121, 5740>>, <<5743, 5759>>,
      <<5761, 5786>>, <<5792, 5866>>, <<5870, 5880>>, <<5888, 5905>>,
      <<5919, 5937>>, <<5952, 5969>>, <<5984, 5996>>, <<5998, 6000>>,
      <<6016, 6067>>, <<6103, 6103>>, <<6108, 6108>>, <<6112, 6121>>,
      <<6128, 6137>>, <<6160, 6169>>, <<6176, 6264>>, <<6272, 6276>>,
      <<6279, 6312>>, <<6314, 6314>>, <<6320, 6389>>, <<6400, 6430>>,
      <<6470, 6509>>, <<6512, 6516>>, <<6528, 6571>>, <<6576, 6601>>,
      <<6608, 6618>>, <<6656, 6678>>, <<6688, 6740>>, <<6784, 6793>>,
      <<6800, 6809>>, <<6823, 6823>>, <<6917, 6963>>, <<6981, 6988>>,
      <<6992, 7001>>, <<7043, 7072>>, <<7086, 7141>>, <<7168, 7203>>,
      <<7232, 7241>>, <<7245, 7293>>, <<7296, 7304>>, <<7312, 7354>>,
      <<7357, 7359>>, <<7401, 7404>>, <<7406, 7411>>, <<7413, 7414>>,
      <<7418, 7418>>, <<7424, 7615>>, <<7680, 7957>>, <<7960, 7965>>,
      <<7968, 8005>>, <<8008, 8013>>, <<8016, 8023>>, <<8025, 8025>>,
      <<8027, 8027>>, <<8029, 8029>>, <<8031, 8061>>, <<8064, 8116>>,
      <<8118, 8124>>, <<8126, 8126>>, <<8130, 8132>>, <<8134, 8140>>,
      <<8144, 8147>>, <<8150, 8155>>, <<8160, 8172>>, <<8178, 8180>>,
      <<8182, 8188>>, <<8304, 8305>>, <<8308, 8313>>, <<8319, 8329>>,
      <<8336, 8348>>, <<8450, 8450>>, <<8455, 8455>>, <<8458, 8467>>,
      <<8469, 8469>>, <<8473, 8477>>, <<8484, 8484>>, <<8486, 8486>>,
      <<8488, 8488>>, <<8490, 8493>>, <<8495, 8505>>, <<8508, 8511>>,
      <<8517, 8521>>, <<8526, 8526>>, <<8528, 8585>>, <<9312, 9371>>,
      <<9450, 9471>>, <<10102, 10131>>, <<11264, 11492>>, <<11499, 11502>>,
      <<11506, 11507>>, <<11517, 11517>>, <<11520, 11557>>, <<11559, 11559>>,
      <<11565, 11565>>, <<11568, 11623>>, <<11631, 11631>>, <<11648, 11670>>,
      <<11680, 11686>>, <<11688, 11694>>, <<11696, 11702>>, <<11704, 11710>>,
      <<11712, 11718>>, <<11720, 11726>>, <<11728, 11734>>, <<11736, 11742>>,
      <<11823, 11823>>, <<12293, 12295>>, <<12321, 12329>>, <<12337, 12341>>,
      <<12344, 12348>>, <<12353, 12438>>, <<12445, 12447>>, <<12449, 12538>>,
      <<12540, 12543>>, <<12549, 12591>>, <<12593, 12686>>, <<12690, 12693>>,
      <<12704, 12735>>, <<12784, 12799>>, <<12832, 12841>>, <<12872, 12879>>,
      <<12881, 12895>>, <<12928, 12937>>, <<12977, 12991>>, <<13312, 19903>>,
      <<19968, 42124>>, <<42192, 42237>>, <<42240, 42508>>, <<42512, 42539>>,
      <<42560, 42606>>, <<42623, 42653>>, <<42656, 42735>>, <<42775, 42783>>,
      <<42786, 42888>>, <<42891, 42954>>, <<42960, 42961>>, <<42963, 42963>>,
      <<42965, 42969>>, <<42994, 43009>>, <<43011, 43013>>, <<43015, 43018>>,
      <<43020, 43042>>, <<43056, 43061>>, <<43072, 43123>>, <<43138, 43187>>,
      <<43216, 43225>>, <<43250, 43255>>, <<43259, 43259>>, <<43261, 43262>>,
      <<43264, 43301>>, <<43312, 43334>>, <<43360, 43388>>, <<43396, 43442>>,
      <<43471, 43481>>, <<43488, 43492>>, <<43494, 43518>>, <<43520, 43560>>,
      <<43584, 43586>>, <<43588, 43595>>, <<43600, 43609>>, <<43616, 43638>>,
      <<43642, 43642>>, <<43646, 43695>>, <<43697, 43697>>, <<43701, 43702>>,
      <<43705, 43709>>, <<43712, 43712>>, <<43714, 43714>>, <<43739, 43741>>,
      <<43744, 43754>>, <<43762, 43764>>, <<43777, 43782>>, <<43785, 43790>>,
      <<43793, 43798>>, <<43808, 43814>>, <<43816, 43822>>, <<43824, 43866>>,
      <<43868, 43881>>, <<43888, 44002>>, <<44016, 44025>>, <<44032, 55203>>,
      <<55216, 55238>>, <<55243, 55291>>, <<63744, 64109>>, <<64112, 64217>>,
      <<64256, 64262>>, <<64275, 64279>>, <<64285, 64285>>, <<64287, 64296>>,
      <<64298, 64310>>, <<64312, 64316>>, <<64318, 64318>>, <<64320, 64321>>,
      <<64323, 64324>>, <<64326, 64433>>, <<64467, 64829>>, <<64848, 64911>>,
      <<64914, 64967>>, <<65008, 65019>>, <<65136, 65140>>, <<65142, 65276>>,
      <<65296, 65305>>, <<65313, 65338>>, <<65345, 65370>>, <<65382, 65470>>,
      <<65474, 65479>>, <<65482, 65487>>, <<65490, 65495>>, <<65498, 65500>>,
      <<65536, 65547>>, <<65549, 65574>>, <<65576, 65594>>, <<65596, 65597>>,
      <<65599, 65613>>, <<65616, 65629>>, <<65664, 65786>>, <<65799, 65843>>,
      <<65856, 65912>>, <<65930, 65931>>, <<66176, 66204>>, <<66208, 66256>>,
      <<66273, 66299>>, <<66304, 66339>>, <<66349, 66378>>, <<66384, 66421>>,
      <<66432, 66461>>, <<66464, 66499>>, <<66504, 66511>>, <<66513, 66517>>,
      <<66560, 66717>>, <<66720, 66729>>, <<66736, 66771>>, <<66776, 66811>>,
      <<66816, 66855>>, <<66864, 66915>>, <<66928, 66938>>, <<66940, 66954>>,
      <<66956, 66962>>, <<66964, 66965>>, <<66967, 66977>>, <<66979, 66993>>,
      <<66995, 67001>>, <<67003, 67004>>, <<67072, 67382>>, <<67392, 67413>>,
      <<67424, 67431>>, <<67456, 67461>>, <<67463, 67504>>, <<67506, 67514>>,
      <<67584, 67589>>, <<67592, 67592>>, <<67594, 67637>>, <<67639, 67640>>,
      <<67644, 67644>>, <<67647, 67669>>, <<67672, 67702>>, <<67705, 67742>>,
      <<67751, 67759>>, <<67808, 67826>>, <<67828, 67829>>, <<67835, 67867>>,
      <<67872, 67897>>, <<67968, 68023>>, <<68028, 68047>>, <<68050, 68096>>,
      <<68112, 68115>>, <<68117, 68119>>, <<68121, 68149>>, <<68160, 68168>>,
      <<68192, 68222>>, <<68224, 68255>>, <<68288, 68295>>, <<68297, 68324>>,
      <<68331, 68335>>, <<68352, 68405>>, <<68416, 68437>>, <<68440, 68466>>,
      <<68472, 68497>>, <<68521, 68527>>, <<68608, 68680>>, <<68736, 68786>>,
      <<68800, 68850>>, <<68858, 68899>>, <<68912, 68921>>, <<69216, 69246>>,
      <<69248, 69289>>, <<69296, 69297>>, <<69376, 69415>>, <<69424, 69445>>,
      <<69457, 69460>>, <<69488, 69505>>, <<69552, 69579>>, <<69600, 69622>>,
      <<69635, 69687>>, <<69714, 69743>>, <<69745, 69746>>, <<69749, 69749>>,
      <<69763, 69807>>, <<69840, 69864>>, <<69872, 69881>>, <<69891, 69926>>,
      <<69942, 69951>>, <<69956, 69956>>, <<69959, 69959>>, <<69968, 70002>>,
      <<70006, 70006>>, <<70019, 70066>>, <<70081, 70084>>, <<70096, 70106>>,
      <<70108, 70108>>, <<70113, 70132>>, <<70144, 70161>>, <<70163, 70187>>,
      <<70272, 70278>>, <<70280, 70280>>, <<70282, 70285>>, <<70287, 70301>>,
      <<70303, 70312>>, <<70320, 70366>>, <<70384, 70393>>, <<70405, 70412>>,
      <<70415, 70416>>, <<70419, 70440>>, <<70442, 70448>>, <<70450, 70451>>,
      <<70453, 70457>>, <<70461, 70461>>, <<70480, 70480>>, <<70493, 70497>>,
      <<70656, 70708>>, <<70727, 70730>>, <<70736, 70745>>, <<70751, 70753>>,
      <<70784, 70831>>, <<70852, 70853>>, <<70855, 70855>>, <<70864, 70873>>,
      <<71040, 71086>>, <<71128, 71131>>, <<71168, 71215>>, <<71236, 71236>>,
      <<71248, 71257>>, <<71296, 71338>>, <<71352, 71352>>, <<71360, 71369>>,
      <<71424, 71450>>, <<71472, 71483>>, <<71488, 71494>>, <<71680, 71723>>,
      <<71840, 71922>>, <<71935, 71942>>, <<71945, 71945>>, <<71948, 71955>>,
      <<71957, 71958>>, <<71960, 71983>>, <<71999, 71999>>, <<72001, 72001>>,
      <<72016, 72025>>, <<72096, 72103>>, <<72106, 72144>>, <<72161, 72161>>,
      <<72163, 72163>>, <<72192, 72192>>, <<72203, 72242>>, <<72250, 72250>>,
      <<72272, 72272>>, <<72284, 72329>>, <<72349, 72349>>, <<72368, 72440>>,
      <<72704, 72712>>, <<72714, 72750>>, <<72768, 72768>>, <<72784, 72812>>,
      <<72818, 72847>>, <<72960, 72966>>, <<72968, 72969>>, <<72971, 73008>>,
      <<73030, 73030>>, <<73040, 73049>>, <<73056, 73061>>, <<73063, 73064>>,
      <<73066, 73097>>, <<73112, 73112>>, <<73120, 73129>>, <<73440, 73458>>,
      <<73648, 73648>>, <<73664, 73684>>, <<73728, 74649>>, <<74752, 74862>>,
      <<74880, 75075>>, <<77712, 77808>>, <<77824, 78894>>, <<82944, 83526>>,
      <<92160, 92728>>, <<92736, 92766>>, <<92768, 92777>>, <<92784, 92862>>,
      <<92864, 92873>>, <<92880, 92909>>, <<92928, 92975>>, <<92992, 92995>>,
      <<93008, 93017>>, <<93019, 93025>>, <<93027, 93047>>, <<93053, 93071>>,
      <<93760, 93846>>, <<93952, 94026>>, <<94032, 94032>>, <<94099, 94111>>,
      <<94176, 94177>>, <<94179, 94179>>, <<94208, 100343>>,
      <<100352, 101589>>, <<101632, 101640>>, <<110576, 110579>>,
      <<110581, 110587>>, <<110589, 110590>>, <<110592, 110882>>,
      <<110928, 110930>>, <<110948, 110951>>, <<110960, 111355>>,
      <<113664, 113770>>, <<113776, 113788>>, <<113792, 113800>>,
      <<113808, 113817>>, <<119520, 119539>>, <<119648, 119672>>,
      <<119808, 119892>>, <<119894, 119964>>, <<119966, 119967>>,
      <<119970, 119970>>, <<119973, 119974>>, <<119977, 119980>>,
      <<119982, 119993>>, <<119995, 119995>>, <<119997, 120003>>,
      <<120005, 120069>>, <<120071, 120074>>, <<120077, 120084>>,
      <<120086, 120092>>, <<120094, 120121>>, <<120123, 120126>>,
      <<120128, 120132>>, <<120134, 120134>>, <<120138, 120144>>,
      <<120146, 120485>>, <<120488, 120512>>, <<120514, 120538>>,
      <<120540, 120570>>, <<120572, 120596>>, <<120598, 120628>>,
      <<120630, 120654>>, <<120656, 120686>>, <<120688, 120712>>,
      <<120714, 120744>>, <<120746, 120770>>, <<120772, 120779>>,
      <<120782, 120831>>, <<122624, 122654>>, <<123136, 123180>>,
      <<123191, 123197>>, <<123200, 123209>>, <<123214, 123214>>,
      <<123536, 123565>>, <<123584, 123627>>, <<123632, 123641>>,
      <<124896, 124902>>, <<124904, 124907>>, <<124909, 124910>>,
      <<124912, 124926>>, <<124928, 125124>>, <<125127, 125135>>,
      <<125184, 125251>>, <<125259, 125259>>, <<125264, 125273>>,
      <<126065, 126123>>, <<126125, 126127>>, <<126129, 126132>>,
      <<126209, 126253>>, <<126255, 126269>>, <<126464, 126467>>,
      <<126469, 126495>>, <<126497, 126498>>, <<126500, 126500>>,
      <<126503, 126503>>, <<126505, 126514>>, <<126516, 126519>>,
      <<126521, 126521>>, <<126523, 126523>>, <<126530, 126530>>,
      <<126535, 126535>>, <<126537, 126537>>, <<126539, 126539>>,
      <<126541, 126543>>, <<126545, 126546>>, <<126548, 126548>>,
      <<126551, 126551>>, <<126553, 126553>>, <<126555, 126555>>,
      <<126557, 126557>>, <<126559, 126559>>, <<126561, 126562>>,
      <<126564, 126564>>, <<126567, 126570>>, <<126572, 126578>>,
      <<126580, 126583>>, <<126585, 126588>>, <<126590, 126590>>,
      <<126592, 126601>>, <<126603, 126619>>, <<126625, 126627>>,
      <<126629, 126633>>, <<126635, 126651>>, <<127232, 127244>>,
      <<130032, 130041>>, <<131072, 173791>>, <<173824, 177976>>,
      <<177984, 178205>>, <<178208, 183969>>, <<183984, 191456>>,
      <<194560, 195101>>, <<196608, 201546>>>>

RECURSIVE InRanges(_, _, _)
InRanges(n, lo, hi) ==
    IF lo > hi THEN FALSE
    ELSE LET mid == (lo + hi) \div 2
         IN  IF n < WordRanges[mid][1] THEN InRanges(n, lo, mid - 1)
             ELSE IF n > WordRanges[mid][2] THEN InRanges(n, mid + 1, hi)
             ELSE TRUE

HexDigit ==
    <<"0", "1", "2", "3", "4", "5", "6", "7", "8", "9", "A", "B", "C", "D", "E", "F">>

Nibble(n, k) == HexDigit[((n \div k) % 16) + 1]

Hex4(n) == Nibble(n, 4096) \o Nibble(n, 256) \o Nibble(n, 16) \o Nibble(n, 1)

\* The way the character with code point n, above U+00FF, is written.
CodePoint(n) ==
    IF n < 65536 THEN "U+" \o Hex4(n)
    ELSE "U+" \o (IF n < 1048576 THEN "" ELSE "1") \o Nibble(n, 65536) \o Hex4(n)

\* \w
WordChar ==
    Class(Latin1Word \cup
          {CodePoint(n) :
              n \in {n \in 256..WordRanges[Len(WordRanges)][2] :
                         InRanges(n, 1, Len(WordRanges))}})

\* [^()\r\n]
ParserScopeChar == NotClass({"(", ")", "\r", "\n"})

\* . without DOTALL
Dot == NotClass({"\n"})

Unmatched == [matched |-> FALSE]

Groups(t, sc, br, msg) ==
    [matched |-> TRUE, change_type |-> t, scope |-> sc, breaking |-> br,
     message |-> msg]

\* :\s(?P<message>.*)?   -- <<message>> on success.
ParserTail(m, r) ==
    IF At(m, r) = ":" /\ Matches(At(m, r + 1), IsSpace)
    THEN <<SubSeq(m, r + 2, r + 1 + RunLen(m, r + 2, Dot))>>
    ELSE NoMatch

ParserBreaking_dropped(m, q, t, sc) ==
    IF At(m, q) = "!" /\ ParserTail(m, q + 1) # NoMatch
    THEN Groups(t, sc, None, ParserTail(m, q + 1)[1])
    ELSE IF ParserTail(m, q) # NoMatch
    THEN Groups(t, sc, None, ParserTail(m, q)[1])
    ELSE Unmatched

\* (?P<breaking>!)? and the tail: with the marker first, then without.
ParserBreaking(m, q, t, sc) ==
    IF At(m, q) = "!" /\ ParserTail(m, q + 1) # NoMatch
    THEN Groups(t, sc, <<"!">>, ParserTail(m, q + 1)[1])
    ELSE IF ParserTail(m, q) # NoMatch
    THEN Groups(t, sc, None, ParserTail(m, q)[1])
    ELSE Unmatched

\* (?:\((?P<scope>[^()\r\n]*)\)|\()?  -- a scope in parentheses (the longest
\* first), then a lone "(", then nothing.
ParserGroup(m, p, t) ==
    LET n  == RunLen(m, p + 1, ParserScopeChar)
        js == {j \in 0..n :
                  /\ At(m, p + 1 + j) = ")"
                  /\ ParserBreaking(m, p + j + 2, t,
                                    SubSeq(m, p + 1, p + j)).matched}
    IN  IF At(m, p) = "(" /\ js # {}
        THEN ParserBreaking(m, p + Max(js) + 2, t,
                            SubSeq(m, p + 1, p + Max(js)))
        ELSE IF At(m, p) = "(" /\ ParserBreaking(m, p + 1, t, None).matched
        THEN ParserBreaking(m, p + 1, t, None)
        ELSE ParserBreaking(m, p, t, None)

\* (?P<change_type>feat|fix|refactor|perf|BREAKING CHANGE)...
ParserTyped(m) ==
    LET ok == {k \in 1..Len(ParserTypes) :
                  /\ StartsWithAt(m, 1, ParserTypes[k])
                  /\ ParserGroup(m, Len(ParserTypes[k]) + 1,
                                 ParserTypes[k]).matched}
    IN  IF ok = {} THEN Unmatched
        ELSE ParserGroup(m, Len(ParserTypes[Min(ok)]) + 1,
                         ParserTypes[Min(ok)])

\* |\w+!  -- the second alternative captures none of the named groups.
ParserWord(m) ==
    LET n  == RunLen(m, 1, WordChar)
        js == {j \in 1..n : At(m, j + 1) = "!" /\ ParserTail(m, j + 2) # NoMatch}
    IN  IF js = {} THEN Unmatched
        ELSE Groups(None, None, None, ParserTail(m, Max(js) + 2)[1])

commit_parser(m) ==
    IF ParserTyped(m).matched THEN ParserTyped(m) ELSE ParserWord(m)

(***************************************************************************)
(* SpecParser: commit_parser matched against typed and untyped headers.    *)
(***************************************************************************)
ParserHeads ==
    { <<"f", "e", "a", "t">>, <<"p", "e", "r", "f">>, BreakingChange,
      <<"f", "o", "o">>, <<"f", "e", "a", "t", "s">>, <<"a", " ", "b">>, <<>>,
      <<"é", "t", "é">>, <<"U+4E2D">>, <<"a", "U+2014">> }

ParserScopes ==
    { <<>>, <<"(", "a", ")">>, <<"(", ")">>, <<"(">>, <<"(", "a", " ", "b", ")">>,
      <<"(", "a", "(", "b", ")", ")">>, <<"(", "a", ")", "b">> }

ParserPuncts == { <<":">>, <<"!", ":">>, <<"!">>, <<>> }

ParserAlphabet == {"a", " ", "\n", ""}

InitParser ==
    /\ \E h \in ParserHeads, sc \in ParserScopes, pu \in ParserPuncts,
          b \in Str(ParserAlphabet, MaxBody) : text = h \o sc \o pu \o b
    /\ op = "none" /\ out = None
    /\ ComposeIdle /\ FlowIdle /\ BumpIdle

CallCommitParser ==
    /\ op = "none"
    /\ op' = "commit_parser"
    /\ out' = commit_parser(text)
    /\ UNCHANGED <<text, composeVars, flowVars, bumpVars>>

NextParser == CallCommitParser

SpecParser == InitParser /\ [][NextParser]_vars

(***************************************************************************)
(* Claims about commit_parser (SpecParser).                                *)
(***************************************************************************)
\* The ways to read m as type, optional (scope), optional !, colon and one
\* whitespace character; after is where the text behind them starts.
TypedForms(m) ==
    LET scoped(t) ==
            {[t |-> t, scope |-> None, q |-> Len(t) + 1]} \cup
            {[t |-> t, scope |-> SubSeq(m, Len(t) + 2, e - 1), q |-> e + 1] :
                e \in {e \in (Len(t) + 2)..Len(m) :
                          /\ At(m, Len(t) + 1) = "("
                          /\ m[e] = ")"
                          /\ \A i \in (Len(t) + 2)..(e - 1) :
                                m[i] \notin {"(", ")", "\r", "\n"}}}
        marked(f) ==
            {[t |-> f.t, scope |-> f.scope, breaking |-> None, r |-> f.q]} \cup
            IF At(m, f.q) = "!"
            THEN {[t |-> f.t, scope |-> f.scope, breaking |-> <<"!">>,
                   r |-> f.q + 1]}
            ELSE {}
        heads == UNION {marked(f) :
                    f \in UNION {scoped(t) :
                            t \in {t \in Range(ParserTypes) :
                                      StartsWithAt(m, 1, t)}}}
    IN  {[t |-> f.t, scope |-> f.scope, breaking |-> f.breaking,
          after |-> f.r + 2] :
            f \in {f \in heads : /\ At(m, f.r) = ":"
                                 /\ At(m, f.r + 1) \in Whitespace}}

\* The lengths j for which m is a word of j characters, "!:", a whitespace
\* character and anything.
WordForms(m) ==
    {j \in 1..Len(m) :
        /\ \A i \in 1..j : Matches(m[i], WordChar)
        /\ At(m, j + 1) = "!"
        /\ At(m, j + 2) = ":"
        /\ At(m, j + 3) \in Whitespace}

LineFeeds(m, a) == {i \in a..Len(m) : m[i] = "\n"}

\* The text from position a up to the next line feed.
LineFrom(m, a) ==
    IF LineFeeds(m, a) = {} THEN SubSeq(m, a, Len(m))
    ELSE SubSeq(m, a, Min(LineFeeds(m, a)) - 1)

\* What is left of the first line of m from position a on.
RestOfFirstLine(m, a) ==
    IF LineFeeds(m, 1) = {} THEN SubSeq(m, a, Len(m))
    ELSE SubSeq(m, a, Min(LineFeeds(m, 1)) - 1)

\* C7 (as amended): commit_parser matches every message that starts with a
\* word token immediately followed by '!:' and a whitespace character; when
\* the word is not a recognized type the match captures no change_type, no
\* scope and no breaking group, only message.  For a recognized type (feat,
\* fix, refactor, perf, BREAKING CHANGE) followed by an optional '(scope)'
\* free of parentheses and line breaks, an optional '!', ':' and a
\* whitespace character it captures change_type, scope without the
\* parentheses, breaking as the presence of the '!', and message as the
\* text after that whitespace character up to the next line feed.
C7_ParserCaptures ==
    op = "commit_parser" =>
        /\ \A j \in WordForms(text) :
              /\ out.matched
              /\ out.message = LineFrom(text, j + 4)
              /\ SubSeq(text, 1, j) \notin Range(ParserTypes) =>
                    /\ out.change_type = None
                    /\ out.scope = None
                    /\ out.breaking = None
        /\ \A f \in TypedForms(text) :
              out = Groups(f.t, f.scope, f.breaking, LineFrom(text, f.after))

C7_Witness ==
    /\ op = "commit_parser"
    /\ text = <<"f", "o", "o", "!", ":", " ", "a">>
    /\ out = Groups(None, None, None, <<"a">>)

\* C7 (as claimed): every message starting with a word token, '!:' and a
\* whitespace character is matched and reported as breaking (the breaking
\* group is set), with no type when the word is not a recognized one; for
\* a recognized type the match captures change_type, scope, breaking and,
\* as message, the remainder of the first line.
C7_OriginalBreakingFlag ==
    op = "commit_parser" =>
        /\ \A j \in WordForms(text) :
              /\ out.matched
              /\ out.breaking # None
              /\ SubSeq(text, 1, j) \notin Range(ParserTypes) =>
                    out.change_type = None
        /\ \A f \in TypedForms(text) :
              out = Groups(f.t, f.scope, f.breaking,
                           RestOfFirstLine(text, f.after))

(***************************************************************************)
(* questions(language).  A prompt text is [lang, key]: the sentence key in *)
(* language lang; a string literal of the source is in English.            *)
(***************************************************************************)
KnownLanguages == {"fr", "es"}

English(key) == [lang |-> "en", key |-> key]

\* translation_multilanguage.translate_text_from_eng: the text in the
\* language asked for, the English text itself for an unknown language.
translate_text_from_eng(t, lang, key) ==
    IF lang \in KnownLanguages THEN [lang |-> lang, key |-> t.key] ELSE t

Choice(value, lang, key, shortcut) ==
    [value |-> value,
     name  |-> <<value \o <<":", " ">>,
                 translate_text_from_eng(English(key), lang, key)>>,
     key   |-> shortcut]

TypeChoices(lang) ==
    << Choice(<<"f", "i", "x">>, lang, "fix", "x"),
       Choice(<<"f", "e", "a", "t">>, lang, "feat", "f"),
       Choice(<<"d", "o", "c", "s">>, lang, "docs", "d"),
       Choice(<<"s", "t", "y", "l", "e">>, lang, "style", "s"),
       Choice(<<"r", "e", "f", "a", "c", "t", "o", "r">>, lang, "refactor", "r"),
       Choice(<<"p", "e", "r", "f">>, lang, "perf", "p"),
       Choice(<<"t", "e", "s", "t">>, lang, "test", "t"),
       Choice(<<"b", "u", "i", "l", "d">>, lang, "build", "b"),
       Choice(<<"c", "i">>, lang, "ci", "c") >>

PrefixQuestion(lang) ==
    [type |-> "list", name |-> "prefix", filter |-> "none",
     message |-> translate_text_from_eng(English("prefix"), lang, "prefix"),
     choices |-> TypeChoices(lang)]

ScopeQuestion(lang) ==
    [type |-> "input", name |-> "scope", filter |-> "parse_scope",
     message |-> translate_text_from_eng(English("scope"), lang, "scope")]

SubjectQuestion(lang) ==
    [type |-> "input", name |-> "subject", filter |-> "parse_subject",
     message |-> translate_text_from_eng(English("subject"), lang, "subject")]

BodyQuestion ==
    [type |-> "input", name |-> "body", filter |-> "multiple_line_breaker",
     message |-> English("body")]

BreakingQuestion ==
    [type |-> "confirm", name |-> "is_breaking_change", filter |-> "none",
     message |-> English("is_breaking_change"), default |-> FALSE]

FooterQuestion ==
    [type |-> "input", name |-> "footer", filter |-> "none",
     message |-> English("footer")]

questions_body_first(lang) ==
    << PrefixQuestion(lang), ScopeQuestion(lang), BodyQuestion,
       SubjectQuestion(lang), BreakingQuestion, FooterQuestion >>

questions(lang) ==
    << PrefixQuestion(lang), ScopeQuestion(lang), SubjectQuestion(lang),
       BodyQuestion, BreakingQuestion, FooterQuestion >>

OfferedTypes == {TypeChoices("en")[i].value : i \in 1..Len(TypeChoices("en"))}

(***************************************************************************)
(* message(answers).                                                       *)
(***************************************************************************)
Fields == {"prefix", "scope", "subject", "body", "footer", "is_breaking_change"}

BreakingFooter ==
    <<"B", "R", "E", "A", "K", "I", "N", "G", " ", "C", "H", "A", "N", "G", "E",
      ":", " ">>

BlankLine == <<"\n", "\n">>

message_footer_first(a) ==
    IF ~(Fields \subseteq DOMAIN a) THEN Raised("KeyError")
    ELSE LET scope  == IF a.scope # <<>> THEN <<"(">> \o a.scope \o <<")">>
                       ELSE a.scope
             body   == IF a.body # <<>> THEN BlankLine \o a.body ELSE a.body
             blank  == IF a.footer # <<>> THEN BlankLine ELSE <<>>
             footer == IF a.is_breaking_change
                       THEN blank \o BreakingFooter \o a.footer
                       ELSE blank \o a.footer
         IN  Returned(a.prefix \o scope \o <<":", " ">> \o a.subject
                      \o body \o footer)

\* answers[key] of an absent key raises KeyError.
message(a) ==
    IF ~(Fields \subseteq DOMAIN a) THEN Raised("KeyError")
    ELSE LET scope   == IF a.scope # <<>> THEN <<"(">> \o a.scope \o <<")">>
                        ELSE a.scope
             body    == IF a.body # <<>> THEN BlankLine \o a.body ELSE a.body
             footer1 == IF a.is_breaking_change
                        THEN BreakingFooter \o a.footer ELSE a.footer
             footer  == IF footer1 # <<>> THEN BlankLine \o footer1
                        ELSE footer1
         IN  Returned(a.prefix \o scope \o <<":", " ">> \o a.subject
                      \o body \o footer)

(***************************************************************************)
(* SpecCompose: message(answers), then process_commit on what it returned. *)
(***************************************************************************)
MaxScope == 3

MaxSubject == 3

ScopeAlphabet == {"a", " ", ""}

SubjectAlphabet == {"a", ".", " ", "\n", ""}

ScopeOutputs == {parse_scope(r) : r \in Str(ScopeAlphabet, MaxScope)}

SubjectOutputs ==
    {parse_subject(r).value :
        r \in {r \in Str(SubjectAlphabet, MaxSubject) : ~parse_subject(r).raised}}

Bodies == {<<>>, <<"b">>, <<"\n">>}

Footers == {<<>>, <<"f">>}

FullAnswers ==
    [prefix : OfferedTypes, scope : ScopeOutputs, subject : SubjectOutputs,
     body : Bodies, footer : Footers, is_breaking_change : BOOLEAN]

Restrict(f, D) == [k \in D |-> f[k]]

\* Records that carry the required keys and only some of the optional ones.
PartialAnswers ==
    {Restrict(f, {"prefix", "subject"} \cup O) :
        f \in [prefix : {<<"f", "i", "x">>, <<"f", "e", "a", "t">>},
               scope : {<<>>, <<"a">>}, subject : {<<"a">>},
               body : {<<>>, <<"b">>}, footer : {<<>>, <<"f">>},
               is_breaking_change : BOOLEAN],
        O \in SUBSET (Fields \ {"prefix", "subject"})}

InitCompose ==
    /\ answers \in FullAnswers \cup PartialAnswers
    /\ stage = "start" /\ rendered = None /\ extracted = None
    /\ TextIdle /\ FlowIdle /\ BumpIdle

CallMessage ==
    /\ stage = "start"
    /\ stage' = "rendered"
    /\ rendered' = message(answers)
    /\ UNCHANGED <<answers, extracted, textVars, flowVars, bumpVars>>

\* The caller goes on only when message() returned.
CallProcessRendered ==
    /\ stage = "rendered"
    /\ ~rendered.raised
    /\ stage' = "extracted"
    /\ extracted' = process_commit(rendered.value)
    /\ UNCHANGED <<answers, rendered, textVars, flowVars, bumpVars>>

NextCompose == CallMessage \/ CallProcessRendered

SpecCompose == InitCompose /\ [][NextCompose]_vars

(***************************************************************************)
(* Claims about message and the round trip (SpecCompose).                  *)
(***************************************************************************)
ValidAnswers(a) ==
    /\ DOMAIN a = Fields
    /\ a.prefix \in OfferedTypes
    /\ a.scope \in ScopeOutputs
    /\ a.subject \in SubjectOutputs

EndsWith(m, w) ==
    Len(m) >= Len(w) /\ SubSeq(m, Len(m) - Len(w) + 1, Len(m)) = w

\* C1: for every valid Answers record (prefix offered by the type-select
\* step, scope an output of parse_scope, subject an output of
\* parse_subject, any body, footer and is_breaking_change),
\* process_commit(message(answers)) equals parse_subject(answers.subject).
C1_RoundTrip ==
    (stage = "extracted" /\ ValidAnswers(answers)) =>
        /\ ~parse_subject(answers.subject).raised
        /\ extracted = parse_subject(answers.subject).value

\* C3: with all six fields present, message(answers) is prefix +
\* ('(' + scope + ')' if scope is non-empty) + ': ' + subject +
\* ('\n\n' + body if body is non-empty) + ('\n\n' + F if F is non-empty),
\* F being 'BREAKING CHANGE: ' + footer for a breaking change and footer
\* otherwise; a breaking change with an empty footer ends in
\* '\n\nBREAKING CHANGE: ', and a record with empty scope, body and footer
\* that is not breaking renders as 'prefix: subject'.
C3_MessageLayout ==
    (stage # "start" /\ DOMAIN answers = Fields) =>
        LET a == answers
            F == IF a.is_breaking_change THEN BreakingFooter \o a.footer
                 ELSE a.footer
        IN  /\ ~rendered.raised
            /\ rendered.value =
                  a.prefix
                  \o (IF a.scope = <<>> THEN <<>>
                      ELSE <<"(">> \o a.scope \o <<")">>)
                  \o <<":", " ">> \o a.subject
                  \o (IF a.body = <<>> THEN <<>> ELSE BlankLine \o a.body)
                  \o (IF F = <<>> THEN <<>> ELSE BlankLine \o F)
            /\ (a.is_breaking_change /\ a.footer = <<>>) =>
                  EndsWith(rendered.value, BlankLine \o BreakingFooter)
            /\ (a.scope = <<>> /\ a.body = <<>> /\ a.footer = <<>>
                  /\ ~a.is_breaking_change) =>
                  rendered.value = a.prefix \o <<":", " ">> \o a.subject

C3_Witness ==
    /\ stage = "rendered"
    /\ DOMAIN answers = Fields
    /\ answers.is_breaking_change
    /\ answers.footer = <<>>
    /\ answers.scope = <<"a", "-", "a">>
    /\ answers.body = <<"b">>
    /\ EndsWith(rendered.value, <<"b">> \o BlankLine \o BreakingFooter)

\* An absent optional field read as empty (false for is_breaking_change).
WithDefaults(a) ==
    [k \in Fields |->
        IF k \in DOMAIN a THEN a[k]
        ELSE IF k = "is_breaking_change" THEN FALSE
        ELSE <<>>]

\* C8: message(answers) accepts a record that carries only prefix and
\* subject, any of scope, body, footer and is_breaking_change being absent:
\* it treats an absent field as empty (false for is_breaking_change) and
\* returns the rendered message without raising.
C8_OptionalFieldsDefault ==
    (stage # "start" /\ {"prefix", "subject"} \subseteq DOMAIN answers) =>
        /\ ~rendered.raised
        /\ rendered = message(WithDefaults(answers))

(***************************************************************************)
(* The question flow: the prompts of questions(language) asked in list     *)
(* order by the prompt driver, each answer passed through the question's   *)
(* filter, and message() called on the complete answers.                   *)
(***************************************************************************)
\* str.split(sep) for a one-character separator: empty pieces are kept.
RECURSIVE split_on(_, _)
split_on(s, sep) ==
    LET hits == {i \in 1..Len(s) : s[i] = sep}
    IN  IF hits = {} THEN <<s>>
        ELSE <<SubSeq(s, 1, Min(hits) - 1)>>
             \o split_on(SubSeq(s, Min(hits) + 1, Len(s)), sep)

RECURSIVE StripNonEmpty(_)
StripNonEmpty(parts) ==
    IF parts = <<>> THEN <<>>
    ELSE (IF Head(parts) = <<>> THEN <<>>
          ELSE <<strip(Head(parts), Whitespace)>>)
         \o StripNonEmpty(Tail(parts))

\* commitizen.cz.utils.multiple_line_breaker: the pieces between "|", each
\* trimmed, empty pieces dropped, joined by line feeds.
multiple_line_breaker(answer) ==
    join(<<"\n">>, StripNonEmpty(split_on(answer, "|")))

ApplyFilter(q, r) ==
    CASE q.filter = "parse_scope" -> Returned(parse_scope(r))
      [] q.filter = "parse_subject" -> parse_subject(r)
      [] q.filter = "multiple_line_breaker" -> Returned(multiple_line_breaker(r))
      [] OTHER -> Returned(r)

Languages == {"en", "fr", "es", "xx"}

\* What the user may type or pick at a prompt.
RawAnswers(q) ==
    CASE q.type = "list" -> {q.choices[i].value : i \in 1..Len(q.choices)}
      [] q.type = "confirm" -> BOOLEAN
      [] q.name = "scope" -> {<<>>, <<"a">>, <<" ", "a", " ", "b">>, <<"a", "", "b">>}
      [] q.name = "subject" -> {<<>>, <<" ", ".">>, <<"a", ".">>, <<"a", " ", "b">>}
      [] q.name = "body" -> {<<>>, <<"b">>, <<"b", " ", "|", "c">>}
      [] OTHER -> {<<>>, <<"f">>}

Put(f, k, v) == [x \in DOMAIN f \cup {k} |-> IF x = k THEN v ELSE f[x]]

InitFlow ==
    /\ FlowIdle
    /\ TextIdle /\ ComposeIdle /\ BumpIdle

\* cz.questions(language) is built and the first prompt is shown.
StartQuestions ==
    /\ flow = "idle"
    /\ \E lang \in Languages :
          /\ language' = lang
          /\ qs' = questions(lang)
          /\ entered' = <<questions(lang)[1].name>>
    /\ flow' = "asking"
    /\ step' = 1
    /\ UNCHANGED <<raw, stored, emitted, textVars, composeVars, bumpVars>>

\* The answer passes the filter and is stored; the next prompt is shown, or
\* the flow ends after the last one.
AnswerAccepted ==
    /\ flow = "asking"
    /\ \E r \in RawAnswers(qs[step]) :
          /\ ~ApplyFilter(qs[step], r).raised
          /\ raw' = Put(raw, qs[step].name, r)
          /\ stored' = Put(stored, qs[step].name, ApplyFilter(qs[step], r).value)
    /\ IF step < Len(qs)
       THEN /\ step' = step + 1
            /\ entered' = Append(entered, qs[step + 1].name)
            /\ flow' = "asking"
       ELSE /\ flow' = "end"
            /\ UNCHANGED <<step, entered>>
    /\ UNCHANGED <<language, qs, emitted, textVars, composeVars, bumpVars>>

\* The filter raises: nothing is stored, and the driver either shows the
\* same prompt again or gives the flow up.
AnswerRejected ==
    /\ flow = "asking"
    /\ \E r \in RawAnswers(qs[step]) :
          /\ ApplyFilter(qs[step], r).raised
          /\ raw' = Put(raw, qs[step].name, r)
    /\ flow' \in {"asking", "aborted"}
    /\ UNCHANGED <<language, qs, step, entered, stored, emitted,
                   textVars, composeVars, bumpVars>>

\* The user interrupts a prompt: the answers are dropped with the flow.
Interrupt ==
    /\ flow = "asking"
    /\ flow' = "aborted"
    /\ UNCHANGED <<language, qs, step, entered, raw, stored, emitted,
                   textVars, composeVars, bumpVars>>

\* All prompts answered: message(answers) is the commit message.
Compose ==
    /\ flow = "end"
    /\ ~message(stored).raised
    /\ emitted' = message(stored).value
    /\ flow' = "emitted"
    /\ UNCHANGED <<language, qs, step, entered, raw, stored,
                   textVars, composeVars, bumpVars>>

NextFlow ==
    \/ StartQuestions
    \/ AnswerAccepted
    \/ AnswerRejected
    \/ Interrupt
    \/ Compose

SpecFlow == InitFlow /\ [][NextFlow]_vars

(***************************************************************************)
(* Claims about the question flow (SpecFlow).                              *)
(***************************************************************************)
StepOrder ==
    <<"prefix", "scope", "subject", "body", "is_breaking_change", "footer">>

Answered == DOMAIN stored

Shown == {entered[i] : i \in 1..Len(entered)}

\* C9: the prompts are entered in exactly the order type-select,
\* scope-input, subject-input, body-input, breaking-confirm, footer-input,
\* end, none skipped or reordered; each stored field is the output of its
\* step's transformer (parse_scope, parse_subject, the line joiner); the
\* body prompt is never entered before the subject passed the validator;
\* and message() is called only at the end with all six fields stored, so
\* an interrupted flow emits no message.
C9_FlowOrder ==
    /\ Len(entered) <= Len(StepOrder)
    /\ entered = SubSeq(StepOrder, 1, Len(entered))
    /\ flow = "asking" =>
          /\ step = Len(entered)
          /\ Answered = {entered[i] : i \in 1..(Len(entered) - 1)}
    /\ flow \in {"end", "emitted"} =>
          /\ entered = StepOrder
          /\ Answered = Fields
    /\ "scope" \in Answered => stored.scope = parse_scope(raw.scope)
    /\ "subject" \in Answered =>
          /\ ~parse_subject(raw.subject).raised
          /\ stored.subject = parse_subject(raw.subject).value
    /\ "body" \in Answered => stored.body = multiple_line_breaker(raw.body)
    /\ "body" \in Shown =>
          /\ "subject" \in Answered
          /\ stored.subject # <<>>
    /\ flow = "emitted" => emitted = message(stored).value
    /\ flow # "emitted" => emitted = None

C9_Witness ==
    /\ flow = "emitted"
    /\ raw.scope = <<" ", "a", " ", "b">>
    /\ stored.scope = <<"a", "-", "b">>
    /\ raw.subject = <<"a", ".">>
    /\ stored.subject = <<"a">>
    /\ stored.body = <<"b", "\n", "c">>
    /\ emitted = message(stored).value

\* C10: for every language given to questions(language), the message of
\* every prompt and the description of every type choice is what the
\* translation collaborator returns for that language; no prompt carries
\* text that bypasses the translation call.
C10_AllPromptsTranslated ==
    flow # "idle" =>
        /\ \A i \in 1..Len(qs) :
              qs[i].message =
                  translate_text_from_eng(English(qs[i].name), language,
                                          qs[i].name)
        /\ \A i \in 1..Len(qs[1].choices) :
              qs[1].choices[i].name[2].lang =
                  (IF language \in KnownLanguages THEN language ELSE "en")

(***************************************************************************)
(* The change classifier: bump_map and bump_map_major_version_zero give    *)
(* the severity of a commit from its type and breaking flag.               *)
(***************************************************************************)
BumpKeys == {"breaking", "feat", "fix", "refactor", "perf"}

\* commitizen.defaults.bump_map
bump_map ==
    [k \in BumpKeys |->
        CASE k = "breaking" -> "MAJOR"
          [] k = "feat" -> "MINOR"
          [] OTHER -> "PATCH"]

bump_map_major_version_zero_major ==
    [k \in BumpKeys |->
        CASE k = "breaking" -> "MAJOR"
          [] k = "feat" -> "MINOR"
          [] OTHER -> "PATCH"]

\* commitizen.defaults.bump_map_major_version_zero
bump_map_major_version_zero ==
    [k \in BumpKeys |->
        CASE k = "breaking" -> "MINOR"
          [] k = "feat" -> "MINOR"
          [] OTHER -> "PATCH"]

classify(change_type, breaking, major_zero) ==
    LET map == IF major_zero THEN bump_map_major_version_zero ELSE bump_map
        key == IF breaking THEN "breaking" ELSE change_type
    IN  IF key \in DOMAIN map THEN map[key] ELSE "NONE"

ChangeTypes ==
    {"feat", "fix", "refactor", "perf", "docs", "style", "test", "build",
     "ci", "chore", "revert", "bump", "BREAKING CHANGE", "foo", "wip"}

InitBump ==
    /\ commit \in [change_type : ChangeTypes, breaking : BOOLEAN,
                   major_zero : BOOLEAN]
    /\ severity = "unset"
    /\ TextIdle /\ ComposeIdle /\ FlowIdle

Classify ==
    /\ severity = "unset"
    /\ severity' = classify(commit.change_type, commit.breaking,
                            commit.major_zero)
    /\ UNCHANGED <<commit, textVars, composeVars, flowVars>>

NextBump == Classify

SpecBump == InitBump /\ [][NextBump]_vars

(***************************************************************************)
(* Claims about the classifier (SpecBump).                                 *)
(***************************************************************************)
\* C4: a breaking commit is MINOR when the major version is zero and MAJOR
\* otherwise; a commit that is not breaking is MINOR for feat, PATCH for
\* fix, perf and refactor and NONE for every other type, unrecognized ones
\* included, in both regimes; no commit is MAJOR when the major version is
\* zero.
C4_Classification ==
    severity # "unset" =>
        /\ commit.breaking =>
              severity = (IF commit.major_zero THEN "MINOR" ELSE "MAJOR")
        /\ ~commit.breaking =>
              severity = (CASE commit.change_type = "feat" -> "MINOR"
                            [] commit.change_type \in {"fix", "perf", "refactor"}
                                 -> "PATCH"
                            [] OTHER -> "NONE")
        /\ commit.major_zero => severity # "MAJOR"

C4_Witness ==
    /\ severity = "MINOR"
    /\ commit.breaking
    /\ commit.major_zero
    /\ commit.change_type = "fix"

====
